---------------------------- MODULE Spec2Model ----------------------------
(***************************************************************************)
(* A model of pagerank.py: transition_model, sample_pagerank and           *)
(* iterate_pagerank.                                                       *)
(*                                                                         *)
(* Pages are the numbers 1..N in the iteration order of the corpus dict;   *)
(* corpus[p] is the set of pages p links to.  Python's float values are    *)
(* modelled as exact rationals (IEEE rounding is not modelled): a small    *)
(* rational is a reduced pair <<num, den>> with den > 0, and the rank      *)
(* tables of iterate_pagerank, whose denominators grow with every update,  *)
(* are tables of arbitrary-precision numerators over one common            *)
(* denominator.                                                            *)
(***************************************************************************)
EXTENDS Integers, Sequences, FiniteSets, TLC

VARIABLES
    pc,                  \* position in the function being run
    corpus,              \* the link graph: page -> set of linked pages
    damping_factor,      \* a rational <<num, den>> in (0,1)
    page,                \* transition_model's argument
    pageChosenRates,     \* transition_model's result
    n,                   \* sample_pagerank's sample count
    i,                   \* sample_pagerank's loop counter
    pageChosen,          \* sample_pagerank's current page
    estimatedPageRanks,  \* the table an estimator builds and returns
    initialValues,       \* iterate_pagerank's copy made at the start of a sweep
    pageName,            \* iterate_pagerank's position in "for pageName in pageNames"
    sweeps,              \* full passes of iterate_pagerank's while loop so far
    visited              \* history: the pages sample_pagerank's walk has been on

vars == <<pc, corpus, damping_factor, page, pageChosenRates, n, i, pageChosen,
          estimatedPageRanks, initialValues, pageName, sweeps, visited>>

-----------------------------------------------------------------------------
(* Bounds of the model *)

MaxPages == 3
MaxLinks == 3
MaxSamples == 4
MaxSweeps == 30

(* The damping factors tried: 1/2 and the program's default 0.85 = 17/20 *)
Dampings == {<<1, 2>>, <<17, 20>>}

-----------------------------------------------------------------------------
(* Exact rational arithmetic on reduced pairs <<num, den>>, den > 0 *)

Abs(x) == IF x < 0 THEN 0 - x ELSE x

GCD[a \in Nat, b \in Nat] == IF b = 0 THEN a ELSE GCD[b, a % b]

\* a / b for integers a, b with b # 0
Rat(a, b) ==
    LET g == GCD[Abs(a), Abs(b)]
        s == IF b < 0 THEN 0 - 1 ELSE 1
    IN  <<(s * a) \div g, (s * b) \div g>>

RatAdd(x, y) == Rat(x[1] * y[2] + y[1] * x[2], x[2] * y[2])
RatSub(x, y) == Rat(x[1] * y[2] - y[1] * x[2], x[2] * y[2])
RatDiv(x, k) == Rat(x[1], x[2] * k)
RatLess(x, y) == x[1] * y[2] < y[1] * x[2]

RECURSIVE RatSum(_, _)
RatSum(f, S) ==
    IF S = {} THEN Rat(0, 1)
    ELSE LET p == CHOOSE q \in S : TRUE
         IN  RatAdd(f[p], RatSum(f, S \ {p}))

RECURSIVE IntSum(_, _)
IntSum(f, S) ==
    IF S = {} THEN 0
    ELSE LET p == CHOOSE q \in S : TRUE
         IN  f[p] + IntSum(f, S \ {p})

-----------------------------------------------------------------------------
(* The link graphs *)

Pages(c) == DOMAIN c
len(c) == Cardinality(DOMAIN c)

NumLinks(c) == IntSum([p \in DOMAIN c |-> Cardinality(c[p])], DOMAIN c)

\* crawl's result: no page links to itself, every link is a page of the corpus
Corpora(N) ==
    {c \in [1..N -> SUBSET (1..N)] :
        /\ \A p \in 1..N : p \notin c[p]
        /\ NumLinks(c) <= MaxLinks}

-----------------------------------------------------------------------------
(* transition_model *)

\* A variant without the branch for a page that has no links
TransitionRateNoDangling(c, pg, d, p) ==
    IF p \in c[pg]
    THEN RatDiv(d, Cardinality(c[pg]))
    ELSE RatDiv(RatSub(Rat(1, 1), d), len(c))

TransitionRate(c, pg, d, p) ==
    IF Cardinality(c[pg]) < 1
    THEN Rat(1, len(c))
    ELSE IF p \in c[pg]
         THEN RatDiv(d, Cardinality(c[pg]))
         ELSE RatDiv(RatSub(Rat(1, 1), d), len(c))

transition_model(c, pg, d) == [p \in Pages(c) |-> TransitionRate(c, pg, d, p)]

InitTransition ==
    /\ pc = "transition_model"
    /\ corpus \in UNION {Corpora(N) : N \in 1..MaxPages}
    /\ damping_factor \in Dampings
    /\ page \in Pages(corpus)
    /\ pageChosenRates = <<>>
    /\ n = 0 /\ i = 0 /\ pageChosen = 0
    /\ estimatedPageRanks = <<>> /\ initialValues = <<>>
    /\ pageName = 0 /\ sweeps = 0 /\ visited = {}

TransitionModel ==
    /\ pc = "transition_model"
    /\ pageChosenRates' = transition_model(corpus, page, damping_factor)
    /\ pc' = "returned"
    /\ UNCHANGED <<corpus, damping_factor, page, n, i, pageChosen,
                   estimatedPageRanks, initialValues, pageName, sweeps, visited>>

NextTransition == TransitionModel

SpecTransition == InitTransition /\ [][NextTransition]_vars

(* C1: whenever transition_model returns, the weights it returns sum to 1  *)
(* over all pages, for a dangling page and for a page with links alike.    *)
C1_WeightsSumToOne ==
    pc = "returned" => RatSum(pageChosenRates, Pages(corpus)) = Rat(1, 1)

(* C2: for a page with no outbound links, transition_model returns a       *)
(* table whose keys are exactly the pages of the graph and in which every  *)
(* page, the dangling page included, has weight 1/N, whatever the damping. *)
C2_DanglingUniform ==
    (pc = "returned" /\ corpus[page] = {}) =>
        /\ DOMAIN pageChosenRates = Pages(corpus)
        /\ \A p \in Pages(corpus) : pageChosenRates[p] = Rat(1, len(corpus))

C2_Witness ==
    /\ pc = "returned"
    /\ corpus[page] = {}
    /\ len(corpus) = 3
    /\ \E q \in Pages(corpus) : corpus[q] # {}
    /\ pageChosenRates[page] = <<1, 3>>

-----------------------------------------------------------------------------
(* sample_pagerank *)

\* A variant that starts the table with an entry for every page
FirstVisitAllPages(c, p) == [q \in Pages(c) |-> IF q = p THEN 1 ELSE 0]

\* line 107: the table after the start page is chosen
FirstVisit(c, p) == [q \in {p} |-> 1]

\* A variant that resets the count of a page visited again
RecordVisitReset(est, p) ==
    [q \in DOMAIN est \cup {p} |-> IF q = p THEN 1 ELSE est[q]]

\* lines 121-124: one more visit of page p
RecordVisit(est, p) ==
    IF p \notin DOMAIN est
    THEN [q \in DOMAIN est \cup {p} |-> IF q = p THEN 1 ELSE est[q]]
    ELSE [est EXCEPT ![p] = @ + 1]

\* lines 127-128: visit counts to ranks
CountsToRanks(est, k) == [q \in DOMAIN est |-> Rat(est[q], k)]

InitSample ==
    /\ pc = "sample_pagerank"
    /\ corpus \in UNION {Corpora(N) : N \in 0..MaxPages}
    /\ damping_factor \in Dampings
    /\ n \in (0 - 2)..MaxSamples
    /\ i = 0 /\ pageChosen = 0
    /\ estimatedPageRanks = <<>>
    /\ visited = {}
    /\ page = 0 /\ pageChosenRates = <<>>
    /\ initialValues = <<>> /\ pageName = 0 /\ sweeps = 0

\* lines 99-107: random.choice raises IndexError on an empty corpus
SampleStart ==
    /\ pc = "sample_pagerank"
    /\ IF len(corpus) = 0
       THEN /\ pc' = "raised"
            /\ UNCHANGED <<pageChosen, estimatedPageRanks, visited>>
       ELSE \E p \in Pages(corpus) :
            /\ pageChosen' = p
            /\ estimatedPageRanks' = FirstVisit(corpus, p)
            /\ visited' = {p}
            /\ pc' = "sample_loop"
    /\ UNCHANGED <<corpus, damping_factor, page, pageChosenRates, n, i,
                   initialValues, pageName, sweeps>>

\* lines 111-124: one pass of "for i in range(n - 1)"; random.choices draws
\* any page of positive weight
SampleStep ==
    /\ pc = "sample_loop"
    /\ i < n - 1
    /\ LET pageChances == transition_model(corpus, pageChosen, damping_factor)
       IN  \E p \in DOMAIN pageChances :
            /\ RatLess(Rat(0, 1), pageChances[p])
            /\ pageChosen' = p
            /\ estimatedPageRanks' = RecordVisit(estimatedPageRanks, p)
            /\ visited' = visited \cup {p}
    /\ i' = i + 1
    /\ UNCHANGED <<pc, corpus, damping_factor, page, pageChosenRates, n,
                   initialValues, pageName, sweeps>>

\* lines 127-131: pageCount / n raises ZeroDivisionError when n = 0
SampleReturn ==
    /\ pc = "sample_loop"
    /\ ~(i < n - 1)
    /\ IF n = 0
       THEN /\ pc' = "raised"
            /\ UNCHANGED estimatedPageRanks
       ELSE /\ estimatedPageRanks' = CountsToRanks(estimatedPageRanks, n)
            /\ pc' = "returned"
    /\ UNCHANGED <<corpus, damping_factor, page, pageChosenRates, n, i,
                   pageChosen, initialValues, pageName, sweeps, visited>>

NextSample == SampleStart \/ SampleStep \/ SampleReturn

SpecSample == InitSample /\ [][NextSample]_vars

AtLoopExit == pc = "sample_loop" /\ ~(i < n - 1)

C6_InvalidInputNeverReturns ==
    (len(corpus) = 0 \/ n < 1) => pc # "returned"

-----------------------------------------------------------------------------
(* Arbitrary-precision naturals for iterate_pagerank's exact values: a     *)
(* number is the sequence of its digits in base BigBase, least significant *)
(* first, without leading zero digits (zero is the empty sequence).        *)

BigBase == 10 ^ 6

BigNat == Seq(0..(BigBase - 1))

\* The digit loops are recursive functions, so that their arguments are
\* values when a loop starts.
BigFromNat[k \in Nat] ==
    IF k = 0 THEN <<>> ELSE <<k % BigBase>> \o BigFromNat[k \div BigBase]

BigNorm[a \in BigNat] ==
    IF a # <<>> /\ a[Len(a)] = 0 THEN BigNorm[SubSeq(a, 1, Len(a) - 1)] ELSE a

BigMulFrom[a \in BigNat, m \in Nat, k \in Nat, carry \in Nat] ==
    IF k > Len(a) THEN BigFromNat[carry]
    ELSE LET t == a[k] * m + carry
         IN  <<t % BigBase>> \o BigMulFrom[a, m, k + 1, t \div BigBase]

\* a * m for a natural m well below 2^31 / BigBase
BigMulSmall(a, m) == BigNorm[BigMulFrom[a, m, 1, 0]]

BigAddFrom[a \in BigNat, b \in BigNat, k \in Nat, carry \in Nat] ==
    IF k > Len(a) /\ k > Len(b) THEN BigFromNat[carry]
    ELSE LET x == IF k <= Len(a) THEN a[k] ELSE 0
             y == IF k <= Len(b) THEN b[k] ELSE 0
             t == x + y + carry
         IN  <<t % BigBase>> \o BigAddFrom[a, b, k + 1, t \div BigBase]

BigAdd(a, b) == BigAddFrom[a, b, 1, 0]

BigSubFrom[a \in BigNat, b \in BigNat, k \in Nat, borrow \in Nat] ==
    IF k > Len(a) THEN <<>>
    ELSE LET y == IF k <= Len(b) THEN b[k] ELSE 0
             t == a[k] - y - borrow
         IN  IF t < 0
             THEN <<t + BigBase>> \o BigSubFrom[a, b, k + 1, 1]
             ELSE <<t>> \o BigSubFrom[a, b, k + 1, 0]

\* a - b for a >= b
BigSub(a, b) == BigNorm[BigSubFrom[a, b, 1, 0]]

BigLessFrom[a \in BigNat, b \in BigNat, k \in Nat] ==
    IF k = 0 THEN FALSE
    ELSE IF a[k] # b[k] THEN a[k] < b[k]
    ELSE BigLessFrom[a, b, k - 1]

BigLessLen[a \in BigNat, b \in BigNat] ==
    IF Len(a) # Len(b) THEN Len(a) < Len(b) ELSE BigLessFrom[a, b, Len(a)]

BigLess(a, b) == BigLessLen[a, b]

BigAbs[a \in BigNat, b \in BigNat] ==
    IF BigLess(a, b) THEN BigSub(b, a) ELSE BigSub(a, b)

\* abs(a - b)
BigAbsDiff(a, b) == BigAbs[a, b]

\* the sum of the numbers of table f, a table over pages 1..Len(f)
BigSum[f \in Seq(BigNat)] ==
    IF f = <<>> THEN <<>> ELSE BigAdd(Head(f), BigSum[Tail(f)])

\* a * m^k
BigPow[a \in BigNat, m \in Nat, k \in Nat] ==
    IF k = 0 THEN a ELSE BigPow[BigMulSmall(a, m), m, k - 1]

BigScale(a, m, k) == BigPow[a, m, k]

-----------------------------------------------------------------------------
(* iterate_pagerank                                                        *)
(*                                                                         *)
(* A rank table is a record [num, den]: the rank of page p is              *)
(* num[p] / den.  With damping d = dn/dd and L the least common multiple   *)
(* of N and the link counts of the pages, one assignment                   *)
(*     estimatedPageRanks[p] = half1 + damping_factor * sum                *)
(* takes the table from denominator den to den * dd * L.                   *)

Lcm[a \in Nat, b \in Nat] == (a * b) \div GCD[a, b]

\* lines 174-179: the number of links page q is entered with in linksToPage;
\* a page without links counts as one with a link to every page
numLinks(c, q) == IF Cardinality(c[q]) < 1 THEN len(c) ELSE Cardinality(c[q])

\* the least common multiple of len(c) and the link counts of pages 1..k
RECURSIVE LinksLcm(_, _)
LinksLcm(c, k) ==
    IF k = 0 THEN len(c) ELSE Lcm[LinksLcm(c, k - 1), numLinks(c, k)]

\* the factor one assignment multiplies the common denominator by
Scale(c, d) == d[2] * LinksLcm(c, len(c))

\* lines 153-154: every page starts at 1 / len(corpus)
InitialRanks(c) ==
    [num |-> [p \in Pages(c) |-> BigFromNat[1]], den |-> BigFromNat[len(c)]]

\* lines 168-179: the pages that link to p, each with its number of links; a
\* page without links counts as linking to every page
linksToPage(c, p) ==
    [q \in {r \in Pages(c) : p \in c[r] \/ Cardinality(c[r]) < 1} |->
        IF p \in c[q] THEN Cardinality(c[q]) ELSE len(c)]

\* lines 182-184: sum of rank / links over the pages of linksToPage (a page
\* not in it adds nothing), as a numerator over t.den * L
LinkSum(c, t, p) ==
    LET l2p == linksToPage(c, p)
    IN  BigSum[[q \in Pages(c) |->
                  IF q \in DOMAIN l2p
                  THEN BigMulSmall(t.num[q], LinksLcm(c, len(c)) \div l2p[q])
                  ELSE <<>>]]

\* A variant that leaves half1 out of the new rank
UpdatedRankNoHalf1(c, d, t, p) == BigMulSmall(LinkSum(c, t, p), d[1])

\* lines 150, 187-190: half1 + half2 computed from table t, as a numerator
\* over t.den * Scale(c, d)
UpdatedRank(c, d, t, p) ==
    LET half1 == BigMulSmall(t.den, (d[2] - d[1])
                                        * (LinksLcm(c, len(c)) \div len(c)))
        half2 == BigMulSmall(LinkSum(c, t, p), d[1])
    IN  BigAdd(half1, half2)

\* line 190: the table after estimatedPageRanks[p] is assigned, computed from
\* the table t as it stands
AssignRank(c, d, t, p) ==
    [num |-> [q \in Pages(c) |->
                IF q = p THEN UpdatedRank(c, d, t, p)
                ELSE BigMulSmall(t.num[q], Scale(c, d))],
     den |-> BigMulSmall(t.den, Scale(c, d))]

\* lines 193-195: sum of abs(initialValues[p] - rank), as a numerator over
\* est.den; the denominator of init is smaller by the factor Scale(c, d) for
\* each of the len(c) assignments made since the copy
TotalVariation(c, d, est, init) ==
    BigSum[[q \in Pages(c) |->
              BigAbsDiff(BigScale(init.num[q], Scale(c, d), len(c)), est.num[q])]]

\* the .001 of line 198 is 1 / ThresholdDen
ThresholdDen == 1000

\* A variant that ends the loop only when no rank changed at all
ConvergedExactly(c, d, est, init) == TotalVariation(c, d, est, init) = <<>>

\* line 198: totalVariation < .001
Converged(c, d, est, init) ==
    BigLess(BigMulSmall(TotalVariation(c, d, est, init), ThresholdDen), est.den)

InitIterate ==
    /\ pc = "iterate_pagerank"
    /\ corpus \in UNION {Corpora(N) : N \in 0..MaxPages}
    /\ damping_factor \in Dampings
    /\ estimatedPageRanks = <<>> /\ initialValues = <<>>
    /\ pageName = 0 /\ sweeps = 0
    /\ page = 0 /\ pageChosenRates = <<>>
    /\ n = 0 /\ i = 0 /\ pageChosen = 0 /\ visited = {}

\* lines 144-157: line 150 raises ZeroDivisionError on an empty corpus
IterateStart ==
    /\ pc = "iterate_pagerank"
    /\ IF len(corpus) = 0
       THEN /\ pc' = "raised"
            /\ UNCHANGED estimatedPageRanks
       ELSE /\ estimatedPageRanks' = InitialRanks(corpus)
            /\ pc' = "while"
    /\ UNCHANGED <<corpus, damping_factor, page, pageChosenRates, n, i,
                   pageChosen, initialValues, pageName, sweeps, visited>>

\* lines 158-161: endFlag is False; a new sweep starts with a copy of the table
\* (the code has no iteration cap: the model follows at most MaxSweeps sweeps)
SweepBegin ==
    /\ pc = "while"
    /\ sweeps < MaxSweeps
    /\ initialValues' = estimatedPageRanks
    /\ pageName' = 1
    /\ pc' = "for"
    /\ UNCHANGED <<corpus, damping_factor, page, pageChosenRates, n, i,
                   pageChosen, estimatedPageRanks, sweeps, visited>>

\* lines 164-190: one pass of "for pageName in pageNames"
UpdatePage ==
    /\ pc = "for"
    /\ pageName <= len(corpus)
    /\ estimatedPageRanks' =
          AssignRank(corpus, damping_factor, estimatedPageRanks, pageName)
    /\ pageName' = pageName + 1
    /\ UNCHANGED <<pc, corpus, damping_factor, page, pageChosenRates, n, i,
                   pageChosen, initialValues, sweeps, visited>>

\* lines 193-202: the convergence test; the table is returned when it passes
SweepEnd ==
    /\ pc = "for"
    /\ pageName > len(corpus)
    /\ sweeps' = sweeps + 1
    /\ pc' = IF Converged(corpus, damping_factor, estimatedPageRanks, initialValues)
             THEN "returned" ELSE "while"
    /\ UNCHANGED <<corpus, damping_factor, page, pageChosenRates, n, i,
                   pageChosen, estimatedPageRanks, initialValues, pageName,
                   visited>>

NextIterate == IterateStart \/ SweepBegin \/ UpdatePage \/ SweepEnd

SpecIterate == InitIterate /\ [][NextIterate]_vars

\* the loop is sequential code: it takes its next step whenever it has one
FairIterate == SpecIterate /\ WF_vars(NextIterate)

\* the sum of all ranks of table t, as a numerator over t.den
RankSum(t) == BigSum[t.num]

\* a page of the corpus has no outbound links
HasDangling(c) == \E p \in Pages(c) : c[p] = {}

\* the corpus is one directed cycle through all of its pages: every page has
\* exactly one link and no two pages link to the same page, and the links
\* from page 1 lead through every page
RECURSIVE Reach(_, _, _)
Reach(c, p, k) ==
    IF k = 0 THEN {p}
    ELSE {p} \cup Reach(c, CHOOSE q \in c[p] : TRUE, k - 1)

IsCycle(c) ==
    /\ len(c) >= 2
    /\ \A p \in Pages(c) : Cardinality(c[p]) = 1
    /\ \A p \in Pages(c) : Cardinality({q \in Pages(c) : p \in c[q]}) = 1
    /\ Reach(c, 1, len(c) - 1) = Pages(c)

(* C5: the table iterate_pagerank returns for a non-empty graph has one    *)
(* entry per page, every value in [0,1], and values that sum to 1 within   *)
(* 1/1000.                                                                 *)
C5_ReturnedTableSumsToOne ==
    pc = "returned" =>
        /\ DOMAIN estimatedPageRanks.num = Pages(corpus)
        /\ \A p \in Pages(corpus) :
              ~BigLess(estimatedPageRanks.den, estimatedPageRanks.num[p])
        /\ ~BigLess(estimatedPageRanks.den,
                    BigMulSmall(BigAbsDiff(RankSum(estimatedPageRanks),
                                           estimatedPageRanks.den),
                                ThresholdDen))

(* C7: on a non-empty graph the update loop of iterate_pagerank eventually *)
(* exits and a table is returned.                                          *)
C7_LoopExits == len(corpus) > 0 => <>(pc = "returned")

C7_Witness ==
    /\ pc = "returned"
    /\ sweeps >= 15
    /\ damping_factor = <<17, 20>>
    /\ HasDangling(corpus)

(* C8: when the new rank of a page is computed, every rank the             *)
(* computation reads is the value that page had at the start of the sweep, *)
(* never one already rewritten in the same sweep.                          *)
C8_ReadsStartOfSweepValues ==
    (pc = "for" /\ pageName <= len(corpus)) =>
        \A q \in DOMAIN linksToPage(corpus, pageName) :
            estimatedPageRanks.num[q] =
                BigScale(initialValues.num[q], Scale(corpus, damping_factor),
                         pageName - 1)

(* C9: on a graph with a dangling page the ranks sum to 1 at              *)
(* initialization, after every full sweep, and in the returned table.      *)
C9_MassConserved ==
    (HasDangling(corpus) /\ pc \in {"while", "returned"}) =>
        RankSum(estimatedPageRanks) = estimatedPageRanks.den

(* C10: on a graph that is one directed cycle over its N pages every rank  *)
(* is 1/N from initialization on: the first sweep changes nothing, the     *)
(* loop exits after that sweep, and the returned ranks are all 1/N.        *)
C10_CycleIsUniform ==
    (IsCycle(corpus) /\ pc \in {"while", "for", "returned"}) =>
        /\ \A p \in Pages(corpus) :
              BigMulSmall(estimatedPageRanks.num[p], len(corpus))
                  = estimatedPageRanks.den
        /\ pc = "returned" => sweeps = 1
        /\ pc = "while" => sweeps = 0

C10_Witness ==
    /\ IsCycle(corpus)
    /\ len(corpus) = 3
    /\ pc = "returned"
    /\ sweeps = 1
    /\ damping_factor = <<17, 20>>

=============================================================================
